---- MODULE Spec2Model ----
(***************************************************************************)
(* clife: a note-taking CLI (src/src/main.rs).  One run of main() is       *)
(* modelled as a sequential state machine over a small file system.        *)
(*                                                                         *)
(* Text is a sequence of one-character strings, so that trim(), the        *)
(* character-class scan and the path <-> string conversions are computed   *)
(* as the code computes them.  A path is a sequence of components, each    *)
(* component a text.                                                       *)
(*                                                                         *)
(* Every std::fs call may succeed or fail; the set io_failed records the   *)
(* calls that failed in this run, and out records what was printed.        *)
(***************************************************************************)
EXTENDS Integers, Sequences, FiniteSets, TLC

VARIABLES
    fs,            \* the file system at and under the root directory
    pc,            \* where main() stands
    notes,         \* Vec<Note> built by create_note_objects
    stack,         \* pending _get_dir_notes frames (the recursion)
    input,         \* the String the current prompt function last read
    accepted,      \* the line the prompt function that returned last had accepted
    action,        \* the Action returned by prompt_for_action
    note_path,     \* main's note_path (created note / note selected for deletion)
    project_name,  \* the String returned by prompt_for_project_name
    out,           \* the success/diagnostic lines printed so far
    io_failed,     \* the std::fs calls that returned Err in this run
    removed,       \* every path handed to remove_file
    index_runs,    \* number of calls of create_note_objects
    actions_run,   \* number of Actions returned by prompt_for_action
    fs0,           \* the file system when the run started
    fs_sel         \* the file system when prompt_for_action returned

vars == <<fs, pc, notes, stack, input, accepted, action, note_path, project_name, out,
          io_failed, removed, index_runs, actions_run, fs0, fs_sel>>

----------------------------------------------------------------------------
(* Bounds of the model *)

\* the initial tree holds at most MaxFiles files
MaxFiles == 3
\* longest text drawn when validate_project_name is exercised on its own
MaxLen == 3

----------------------------------------------------------------------------
(* Characters and text *)

Letters == {"a", "b", "c", "d", "e", "h", "j", "k", "l", "m", "n", "o", "p",
            "r", "s", "t", "w", "x", "y", "z", "A", "E", "H", "L", "O", "P", "C"}
Digits == {"0", "1", "2", "3", "4", "5", "6", "7", "8", "9"}

\* char::is_whitespace on the characters used here
is_whitespace(c) == c \in {" ", "\n", "\t"}

\* char::is_alphanumeric
is_alphanumeric(c) == c \in Letters \cup Digits

RECURSIVE trim_start(_)
trim_start(s) ==
    IF s = <<>> THEN s
    ELSE IF is_whitespace(Head(s)) THEN trim_start(Tail(s)) ELSE s

RECURSIVE trim_end(_)
trim_end(s) ==
    IF s = <<>> THEN s
    ELSE IF is_whitespace(s[Len(s)]) THEN trim_end(SubSeq(s, 1, Len(s) - 1)) ELSE s

\* str::trim: strips leading and trailing whitespace
trim(s) == trim_end(trim_start(s))

DigitChar == <<"0", "1", "2", "3", "4", "5", "6", "7", "8", "9">>

\* usize::to_string: decimal digits, most significant first
RECURSIVE to_string(_)
to_string(n) ==
    IF n < 10 THEN <<DigitChar[n + 1]>>
    ELSE to_string(n \div 10) \o <<DigitChar[(n % 10) + 1]>>

\* read_line keeps the line terminator
Line(s) == s \o <<"\n">>

----------------------------------------------------------------------------
(* Paths *)

\* Config.root_dir: /home/parker/.clife
RootDir == << <<"h", "o", "m", "e">>, <<"p", "a", "r", "k", "e", "r">>,
              <<".", "c", "l", "i", "f", "e">> >>

\* Path::strip_prefix(root).unwrap(): the components after the prefix
strip_prefix(path, base) == SubSeq(path, Len(base) + 1, Len(path))

\* Path::to_str of a relative path: components joined by '/'
RECURSIVE to_str(_)
to_str(p) ==
    IF p = <<>> THEN <<>>
    ELSE IF Len(p) = 1 THEN p[1]
    ELSE p[1] \o <<"/">> \o to_str(Tail(p))

\* the components of a text: the non-empty runs between '/' characters
RECURSIVE Components(_, _)
Components(s, cur) ==
    IF s = <<>> THEN (IF cur = <<>> THEN <<>> ELSE <<cur>>)
    ELSE IF Head(s) = "/"
         THEN (IF cur = <<>> THEN <<>> ELSE <<cur>>) \o Components(Tail(s), <<>>)
         ELSE Components(Tail(s), Append(cur, Head(s)))

\* PathBuf::from(text): [abs |-> has a root, comps |-> components]
PathBufFrom(s) == [abs |-> (s # <<>> /\ Head(s) = "/"), comps |-> Components(s, <<>>)]

\* PathBuf::push: an absolute argument replaces the path, a relative one is appended
\* (variant: the argument always replaces the path, so the root is lost)
push_replace(base, p) == p.comps
push(base, p) == IF p.abs THEN p.comps ELSE base \o p.comps

Parent(p) == SubSeq(p, 1, Len(p) - 1)

----------------------------------------------------------------------------
(* The file system: the directories and the files (with their content) at   *)
(* or under the root directory.                                             *)

N_a == <<"a">>
N_b == <<"b">>
N_c == <<"c">>
N_x == <<"x", ".", "m", "d">>
N_y == <<"y", ".", "m", "d">>
N_z == <<"z", ".", "t", "x", "t">>
N_w == <<"w", ".", "m", "d">>

\* "new_note_" + note_suffix.to_string() + ".md"
NoteName(n) ==
    <<"n", "e", "w", "_", "n", "o", "t", "e", "_">> \o to_string(n) \o <<".", "m", "d">>

\* relative paths the initial tree may hold
UDirs == { <<N_a>>, <<N_b>>, <<N_a, N_c>> }
UFiles == { <<N_a, N_x>>, <<N_a, N_c, N_w>>, <<N_b, N_y>>, <<N_b, N_z>>,
            <<NoteName(1)>>, <<NoteName(2)>> }

Exists(f, p) == p \in f.dirs \/ p \in DOMAIN f.files
IsDir(f, p) == p \in f.dirs

\* the entries read_dir(base) yields
Entries(f, base) == { p \in f.dirs \cup DOMAIN f.files : Len(p) > 0 /\ Parent(p) = base }

\* everything strictly below the root directory
UnderRoot(f) ==
    [dirs |-> f.dirs \ {RootDir}, files |-> f.files]

MkFs(D, F) ==
    [dirs |-> {RootDir} \cup { RootDir \o d : d \in D },
     files |-> [p \in { RootDir \o r : r \in F } |-> "data"]]

NoRoot == [dirs |-> {}, files |-> [p \in {} |-> "data"]]

\* the directory sets closed under parent, and the file sets whose parents exist
DirChoices == { D \in SUBSET UDirs : \A d \in D : Len(d) = 1 \/ Parent(d) \in D }
FileChoices(D) ==
    { F \in SUBSET UFiles : /\ Cardinality(F) <= MaxFiles
                            /\ \A r \in F : Len(r) = 1 \/ Parent(r) \in D }

InitialTrees ==
    {NoRoot} \cup UNION { { MkFs(D, F) : F \in FileChoices(D) } : D \in DirChoices }

\* std::fs::create_dir_all(root) when it succeeds
create_dir_all(f, p) == [f EXCEPT !.dirs = @ \cup {p}]

\* std::fs::File::create when it succeeds: creates the file or truncates it
File_create(f, p) ==
    [f EXCEPT !.files = [q \in DOMAIN f.files \cup {p} |->
                            IF q = p THEN "empty" ELSE f.files[q]]]

\* std::fs::remove_file when it succeeds
remove_file(f, p) ==
    [f EXCEPT !.files = [q \in DOMAIN f.files \ {p} |-> f.files[q]]]

\* the editor saving the buffer to the path it was given
write_file(f, p) ==
    [f EXCEPT !.files = [q \in DOMAIN f.files \cup {p} |->
                            IF q = p THEN "data" ELSE f.files[q]]]

----------------------------------------------------------------------------
(* What the user may type at a prompt *)

T_c == <<"c">>
T_d == <<"d">>
T_p == <<"p">>
T_y == <<"y">>
T_n == <<"n">>

Pad(s) == <<" ">> \o s \o <<" ", "\n">>

Lines ==
    { Line(T_c), Line(T_d), Line(T_p), Line(T_y), Line(T_n) }
    \cup { Pad(T_d), Pad(T_y), <<>>, Line(<<"h", "i", " ", "p">>) }
    \cup { Line(to_str(r)) : r \in UFiles }
    \cup { Pad(to_str(<<N_a, N_x>>)) }

----------------------------------------------------------------------------
(* The run *)

NoPath == [abs |-> FALSE, comps |-> <<>>]

Init ==
    /\ fs \in InitialTrees
    /\ pc = "start"
    /\ notes = <<>>
    /\ stack = <<>>
    /\ input = <<>>
    /\ accepted = <<>>
    /\ action = "none"
    /\ note_path = NoPath
    /\ project_name = <<>>
    /\ out = {}
    /\ io_failed = {}
    /\ removed = {}
    /\ index_runs = 0
    /\ actions_run = 0
    /\ fs0 = fs
    /\ fs_sel = fs

\* a panic!/unwrap/expect on the Err of the std::fs call `call`
Panic(call) ==
    /\ pc' = "panic"
    /\ io_failed' = io_failed \cup {call}

\* detect_root_folder when try_exists is Ok: whether the root directory is there
detect_root_folder(f) == Exists(f, RootDir)

\* main, lines 255-258, with detect_root_folder
DetectRootFolder ==
    /\ pc = "start"
    /\ \E ok \in BOOLEAN :
         IF ~ok
         THEN /\ Panic("try_exists")
              /\ UNCHANGED out
         ELSE /\ IF detect_root_folder(fs)
                 THEN pc' = "index" /\ UNCHANGED out
                 ELSE pc' = "create_root" /\ out' = out \cup {"No clife folder detected"}
              /\ UNCHANGED io_failed
    /\ UNCHANGED <<fs, notes, stack, input, accepted, action, note_path, project_name,
                   removed, index_runs, actions_run, fs0, fs_sel>>

\* create_root_folder: the Result of create_dir_all is dropped
CreateRootFolder ==
    /\ pc = "create_root"
    /\ \E ok \in BOOLEAN :
         IF ok
         THEN fs' = create_dir_all(fs, RootDir) /\ UNCHANGED io_failed
         ELSE fs' = fs /\ io_failed' = io_failed \cup {"create_dir_all"}
    /\ out' = out \cup {"directory created!"}
    /\ pc' = "index"
    /\ UNCHANGED <<notes, stack, input, accepted, action, note_path, project_name,
                   removed, index_runs, actions_run, fs0, fs_sel>>

\* create_note_objects up to the first read_dir of _get_dir_notes
CreateNoteObjects ==
    /\ pc = "index"
    /\ index_runs' = index_runs + 1
    /\ notes' = <<>>
    /\ \E ok \in BOOLEAN :
         IF ok /\ IsDir(fs, RootDir)
         THEN /\ stack' = << [base |-> RootDir, contents |-> Entries(fs, RootDir)] >>
              /\ pc' = "walk"
              /\ UNCHANGED io_failed
         ELSE /\ Panic("read_dir")
              /\ UNCHANGED stack
    /\ UNCHANGED <<fs, input, accepted, action, note_path, project_name, out,
                   removed, actions_run, fs0, fs_sel>>

\* (variant: the prefix stripped is the entry's own directory, not root_dir)
MakeNote_base(curr_path, root_dir) ==
    [full_path |-> curr_path, trunc_path |-> <<curr_path[Len(curr_path)]>>]

\* the Note pushed for a non-directory entry
MakeNote(curr_path, root_dir) ==
    [full_path |-> curr_path, trunc_path |-> strip_prefix(curr_path, root_dir)]

\* one iteration of the for loop of _get_dir_notes, in the innermost call
GetDirNotesEntry ==
    /\ pc = "walk"
    /\ stack # <<>>
    /\ LET top == stack[Len(stack)]
           rest == SubSeq(stack, 1, Len(stack) - 1)
       IN /\ top.contents # {}
          /\ \E curr_path \in top.contents, ok \in BOOLEAN :
               LET popped == Append(rest, [top EXCEPT !.contents = @ \ {curr_path}])
               IN IF ~ok
                  THEN /\ Panic("read_dir")
                       /\ UNCHANGED <<stack, notes>>
                  ELSE /\ IF IsDir(fs, curr_path)
                          THEN /\ stack' = Append(popped,
                                      [base |-> curr_path,
                                       contents |-> Entries(fs, curr_path)])
                               /\ UNCHANGED notes
                          ELSE /\ stack' = popped
                               /\ notes' = Append(notes, MakeNote(curr_path, RootDir))
                       /\ UNCHANGED <<pc, io_failed>>
    /\ UNCHANGED <<fs, input, accepted, action, note_path, project_name, out,
                   removed, index_runs, actions_run, fs0, fs_sel>>

\* the for loop of the innermost _get_dir_notes is exhausted: the call returns;
\* when it is the outermost call, main prints the count and prompts
GetDirNotesReturn ==
    /\ pc = "walk"
    /\ stack # <<>>
    /\ stack[Len(stack)].contents = {}
    /\ stack' = SubSeq(stack, 1, Len(stack) - 1)
    /\ IF Len(stack) = 1
       THEN pc' = "prompt_action" /\ out' = out \cup {"Found notes"}
       ELSE UNCHANGED <<pc, out>>
    /\ UNCHANGED <<fs, notes, input, accepted, action, note_path, project_name,
                   io_failed, removed, index_runs, actions_run, fs0, fs_sel>>

\* (variant: the first two arms of the if chain exchanged)
ActionOf_swapped(t) ==
    IF t = T_c THEN "Delete"
    ELSE IF t = T_d THEN "CreateNote"
    ELSE IF t = T_p THEN "CreateProject"
    ELSE "panic"

\* the if chain of prompt_for_action, lines 102-110
ActionOf(t) ==
    IF t = T_c THEN "CreateNote"
    ELSE IF t = T_d THEN "Delete"
    ELSE IF t = T_p THEN "CreateProject"
    ELSE "panic"

\* the loop condition of prompt_for_action, line 95
ActionAccepted(s) == trim(s) \in {T_c, T_d, T_p}

\* where main's match sends each Action, lines 265-285
Dispatch(a) ==
    CASE a = "CreateNote" -> "create_note"
      [] a = "Delete" -> "prompt_note"
      [] a = "CreateProject" -> "prompt_project"
      [] OTHER -> "panic"

\* prompt_for_action: one read_line; an accepted line returns the Action to main,
\* which enters the matching arm
PromptForAction ==
    /\ pc = "prompt_action"
    /\ \E line \in Lines :
         IF ActionAccepted(line)
         THEN /\ action' = ActionOf(trim(line))
              /\ actions_run' = actions_run + 1
              /\ fs_sel' = fs
              /\ pc' = Dispatch(ActionOf(trim(line)))
              /\ accepted' = line
              /\ input' = <<>>
         ELSE /\ input' = line
              /\ UNCHANGED <<pc, accepted, action, actions_run, fs_sel>>
    /\ UNCHANGED <<fs, notes, stack, note_path, project_name, out,
                   io_failed, removed, index_runs, fs0>>

\* the while loop of create_new_note: the first suffix >= n whose name does not exist
\* (Path::exists is taken to answer truly)
RECURSIVE FirstFree(_, _)
FirstFree(f, n) ==
    IF Exists(f, Append(RootDir, NoteName(n))) THEN FirstFree(f, n + 1) ELSE n

\* create_new_note(&config, notes.len() + 1): the Result of File::create is dropped
CreateNewNote ==
    /\ pc = "create_note"
    /\ LET path == Append(RootDir, NoteName(FirstFree(fs, Len(notes) + 1)))
       IN /\ note_path' = [abs |-> TRUE, comps |-> path]
          /\ \E ok \in BOOLEAN :
               IF ok /\ IsDir(fs, RootDir)
               THEN fs' = File_create(fs, path) /\ UNCHANGED io_failed
               ELSE fs' = fs /\ io_failed' = io_failed \cup {"File::create"}
    /\ out' = out \cup {"New note created"}
    /\ pc' = "editor"
    /\ UNCHANGED <<notes, stack, input, accepted, action, project_name,
                   removed, index_runs, actions_run, fs0, fs_sel>>

\* Command::new("nvim").arg(note_path).status(), its result dropped: the editor
\* may or may not save the file; then main returns
RunEditor ==
    /\ pc = "editor"
    /\ \E saved \in BOOLEAN :
         fs' = IF saved /\ IsDir(fs, RootDir) THEN write_file(fs, note_path.comps) ELSE fs
    /\ pc' = "done"
    /\ UNCHANGED <<notes, stack, input, accepted, action, note_path, project_name, out,
                   io_failed, removed, index_runs, actions_run, fs0, fs_sel>>

\* (variant: .all in place of .any)
NoteMatches_all(ns, s) ==
    \A i \in 1..Len(ns) : to_str(ns[i].trunc_path) = trim(s)

\* the test of prompt_for_note, lines 157-160
NoteMatches(ns, s) ==
    \E i \in 1..Len(ns) : to_str(ns[i].trunc_path) = trim(s)

\* prompt_for_note: one read_line; a line naming an indexed note returns its path,
\* and main enters confirm_delete
PromptForNote ==
    /\ pc = "prompt_note"
    /\ \E line \in Lines :
         IF NoteMatches(notes, line)
         THEN /\ note_path' = PathBufFrom(trim(line))
              /\ pc' = "confirm"
              /\ accepted' = line
              /\ input' = <<>>
         ELSE /\ input' = line
              /\ UNCHANGED <<pc, accepted, note_path>>
    /\ UNCHANGED <<fs, notes, stack, action, project_name, out,
                   io_failed, removed, index_runs, actions_run, fs0, fs_sel>>

\* (variant: "n" prints the cancellation but does not exit)
ConfirmDelete_noexit ==
    /\ pc = "confirm"
    /\ \E line \in Lines :
         IF trim(line) \notin {T_n, T_y}
         THEN /\ input' = line
              /\ UNCHANGED <<pc, accepted, out>>
         ELSE /\ accepted' = line
              /\ input' = <<>>
              /\ pc' = "delete"
              /\ out' = IF trim(line) = T_n THEN out \cup {"Cancelling"} ELSE out
    /\ UNCHANGED <<fs, notes, stack, action, note_path, project_name,
                   io_failed, removed, index_runs, actions_run, fs0, fs_sel>>

\* confirm_delete: one read_line; "n" exits with code 0, "y" returns to main
ConfirmDelete ==
    /\ pc = "confirm"
    /\ \E line \in Lines :
         IF trim(line) \notin {T_n, T_y}
         THEN /\ input' = line
              /\ UNCHANGED <<pc, accepted, out>>
         ELSE /\ accepted' = line
              /\ input' = <<>>
              /\ IF trim(line) = T_n
                 THEN pc' = "exit0" /\ out' = out \cup {"Cancelling"}
                 ELSE pc' = "delete" /\ UNCHANGED out
    /\ UNCHANGED <<fs, notes, stack, action, note_path, project_name,
                   io_failed, removed, index_runs, actions_run, fs0, fs_sel>>

\* main lines 275-277 and delete: remove_file on root_dir.push(note_path)
Delete ==
    /\ pc = "delete"
    /\ LET full_path == push(RootDir, note_path)
       IN /\ removed' = removed \cup {full_path}
          /\ \E ok \in BOOLEAN :
               IF ok /\ full_path \in DOMAIN fs.files
               THEN /\ fs' = remove_file(fs, full_path)
                    /\ out' = out \cup {"Deleting note", "File successfully deleted"}
                    /\ pc' = "done"
                    /\ UNCHANGED io_failed
               ELSE /\ fs' = fs
                    /\ out' = out \cup {"Deleting note"}
                    /\ Panic("remove_file")
    /\ UNCHANGED <<notes, stack, input, accepted, action, note_path, project_name,
                   index_runs, actions_run, fs0, fs_sel>>

\* (variant: the character scan runs over the untrimmed string)
validate_untrimmed(project_name_) ==
    IF Len(trim(project_name_)) = 0 THEN FALSE
    ELSE \A k \in 1..Len(project_name_) :
           LET c == project_name_[k]
           IN is_alphanumeric(c) \/ c \in {"_", "."}

\* validate_project_name
validate_project_name(project_name_) ==
    IF Len(trim(project_name_)) = 0 THEN FALSE
    ELSE \A k \in 1..Len(trim(project_name_)) :
           LET c == trim(project_name_)[k]
           IN is_alphanumeric(c) \/ c \in {"_", "."}

\* (variant: the CreateProject arm creates root/<project_name>)
PromptForProjectName_mkdir(lines) ==
    /\ pc = "prompt_project"
    /\ \E line \in lines :
         IF validate_project_name(line)
         THEN /\ project_name' = trim(line)
              /\ accepted' = line
              /\ input' = <<>>
              /\ pc' = "done"
              /\ fs' = create_dir_all(fs, Append(RootDir, trim(line)))
              /\ UNCHANGED out
         ELSE /\ input' = line
              /\ out' = out \cup {"invalid characters"}
              /\ UNCHANGED <<fs, pc, accepted, project_name>>
    /\ UNCHANGED <<notes, stack, action, note_path,
                   io_failed, removed, index_runs, actions_run, fs0, fs_sel>>

\* prompt_for_project_name: one read_line and its validation; a valid line
\* returns the trimmed name to main, which drops it and returns
PromptForProjectName(lines) ==
    /\ pc = "prompt_project"
    /\ \E line \in lines :
         IF validate_project_name(line)
         THEN /\ project_name' = trim(line)
              /\ accepted' = line
              /\ input' = <<>>
              /\ pc' = "done"
              /\ UNCHANGED out
         ELSE /\ input' = line
              /\ out' = out \cup {"invalid characters"}
              /\ UNCHANGED <<pc, accepted, project_name>>
    /\ UNCHANGED <<fs, notes, stack, action, note_path,
                   io_failed, removed, index_runs, actions_run, fs0, fs_sel>>

Next ==
    \/ DetectRootFolder
    \/ CreateRootFolder
    \/ CreateNoteObjects
    \/ GetDirNotesEntry
    \/ GetDirNotesReturn
    \/ PromptForAction
    \/ CreateNewNote
    \/ RunEditor
    \/ PromptForNote
    \/ ConfirmDelete
    \/ Delete
    \/ PromptForProjectName(Lines)

Spec == Init /\ [][Next]_vars

\* the process has ended: main returned, exit(0) was called, or a panic unwound
Terminated == pc \in {"done", "exit0", "panic"}

\* the process exit code once it has ended
ExitCode == IF pc = "panic" THEN 101 ELSE 0

----------------------------------------------------------------------------
(* prompt_for_project_name exercised on its own, over every short text *)

NameChars == {"a", "_", ".", " ", "\n", "&"}

RECURSIVE TextsUpTo(_)
TextsUpTo(n) ==
    IF n = 0 THEN { <<>> }
    ELSE LET shorter == TextsUpTo(n - 1)
         IN shorter \cup { Append(s, c) : s \in { x \in shorter : Len(x) = n - 1 },
                                          c \in NameChars }

\* the names of test_valid_project_name (lines 322-328)
ValidNames ==
    { <<"t", "e", "s", "t">>, <<"t", "e", "s", "t", "_", "1">>,
      <<"m", "y", ".", "p", "r", "o", "j", "e", "c", "t">>,
      <<".", "H", "E", "L", "L", "O", ".", "P", "_", "A", "r", "k", "e", "r", "_">>,
      <<" ", " ", " ", "h", "e", "l", "l", "o", " ", " ", " ">> }

\* the names of test_invalid_project_name (lines 331-337)
InvalidNames ==
    { <<"h", "e", "l", "l", "o", " ", "p", "a", "r", "k", "e", "r">>,
      <<"&", "p", "a", "r", "k", "e", "r">>,
      <<"_", "h", "e", "l", "l", "o", "_", "(">> }

NameInputs ==
    TextsUpTo(MaxLen)
    \cup ValidNames \cup { Line(s) : s \in ValidNames }
    \cup InvalidNames \cup { Line(s) : s \in InvalidNames }

\* main has reached the CreateProject arm on an empty root directory
InitValidate ==
    /\ fs = MkFs({}, {})
    /\ pc = "prompt_project"
    /\ notes = <<>>
    /\ stack = <<>>
    /\ input = <<>>
    /\ accepted = Line(T_p)
    /\ action = "CreateProject"
    /\ note_path = NoPath
    /\ project_name = <<>>
    /\ out = {"Found notes"}
    /\ io_failed = {}
    /\ removed = {}
    /\ index_runs = 1
    /\ actions_run = 1
    /\ fs0 = fs
    /\ fs_sel = fs

NextValidate == PromptForProjectName(NameInputs)

SpecValidate == InitValidate /\ [][NextValidate]_vars

----------------------------------------------------------------------------
(* Properties *)

\* the file main hands to delete(): the root directory followed by the
\* components of the relative path the user selected
Selected == RootDir \o note_path.comps

\* the line consumed by a step of a prompt function: it stays in input when it
\* is rejected and is recorded in accepted when the function returns
LineRead == IF pc' = pc THEN input' ELSE accepted'

\* s is whitespace, then a non-empty run of alphanumerics, '_' and '.', then whitespace
Accepts(s) ==
    \E i, j \in 1..Len(s) :
        /\ i <= j
        /\ \A k \in 1..(i - 1) : is_whitespace(s[k])
        /\ \A k \in (j + 1)..Len(s) : is_whitespace(s[k])
        /\ \A k \in i..j : s[k] \in Letters \cup Digits \cup {"_", "."}

\* t is s without its leading and trailing whitespace
IsTrimOf(t, s) ==
    /\ t # <<>> => ~is_whitespace(t[1]) /\ ~is_whitespace(t[Len(t)])
    /\ \E i \in 1..(Len(s) + 1), j \in 0..Len(s) :
        /\ t = SubSeq(s, i, j)
        /\ \A k \in 1..(i - 1) : is_whitespace(s[k])
        /\ \A k \in (j + 1)..Len(s) : is_whitespace(s[k])

\* the suffixes create_new_note tries, given the index and the tree it started from
FreeSuffix(n) ==
    /\ n >= Len(notes) + 1
    /\ ~Exists(fs_sel, Append(RootDir, NoteName(n)))
    /\ \A m \in (Len(notes) + 1)..(n - 1) : Exists(fs_sel, Append(RootDir, NoteName(m)))

\* fs is fs_sel plus the empty file path, and nothing else differs
OnlyCreated(path) ==
    /\ fs.dirs = fs_sel.dirs
    /\ DOMAIN fs.files = DOMAIN fs_sel.files \cup {path}
    /\ path \notin DOMAIN fs_sel.files
    /\ fs.files[path] = "empty"
    /\ \A q \in DOMAIN fs_sel.files : fs.files[q] = fs_sel.files[q]

CreatedAsClaimed ==
    \E n \in 1..(Len(notes) + Cardinality(DOMAIN fs_sel.files) + 2) :
        /\ FreeSuffix(n)
        /\ note_path = [abs |-> TRUE, comps |-> Append(RootDir, NoteName(n))]
        /\ OnlyCreated(Append(RootDir, NoteName(n)))

\* C1: when create_new_note has returned, the file new_note_<n>.md, n the least
\* suffix >= the starting suffix whose name did not exist, has been created
\* empty at the returned path, and nothing else was created or removed.
\* (The code drops the Result of File::create, so this fails when it is Err.)
C1_CreateNewNote == pc = "editor" => CreatedAsClaimed

\* the same statement for the runs in which File::create returned Ok
C1_WhenCreateSucceeds ==
    (pc = "editor" /\ "File::create" \notin io_failed) => CreatedAsClaimed

\* C6: once create_root_folder has returned, detect_root_folder on the same
\* path returns true; and create_root_folder on an existing root changes nothing.
\* (The code drops the Result of create_dir_all, so this fails when it is Err.)
C6_EnsureThenExists ==
    /\ ("directory created!" \in out /\ pc = "index") => detect_root_folder(fs)
    /\ detect_root_folder(fs) => create_dir_all(fs, RootDir) = fs

\* the same statement for the runs in which create_dir_all returned Ok
C6_WhenMkdirSucceeds ==
    /\ ("directory created!" \in out /\ pc = "index" /\ "create_dir_all" \notin io_failed)
          => detect_root_folder(fs)
    /\ detect_root_folder(fs) => create_dir_all(fs, RootDir) = fs

FatalCalls == {"try_exists", "read_dir", "File::create", "remove_file"}

\* C7: exit code 0 is reached only by main returning or by "n" at the delete
\* confirmation, and a run in which the existence check, a directory read, the
\* creation of the note file or the removal of the selected file failed is
\* aborted by a panic at once: it prints no success line for the failed call
\* and never completes normally.
C7_FatalOnFsError ==
    /\ (Terminated /\ ExitCode = 0) => pc \in {"done", "exit0"}
    /\ pc = "exit0" => "Cancelling" \in out
    /\ (io_failed \cap FatalCalls # {}) => pc = "panic"
    /\ "File::create" \in io_failed => "New note created" \notin out

\* the same statement without the creation of the note file among the fatal calls
C7_OtherCallsFatal ==
    /\ (Terminated /\ ExitCode = 0) => pc \in {"done", "exit0"}
    /\ pc = "exit0" => "Cancelling" \in out
    /\ (io_failed \cap (FatalCalls \ {"File::create"}) # {}) => pc = "panic"
    /\ "remove_file" \in io_failed => "File successfully deleted" \notin out

----------------------------------------------------------------------------

\* what C2 requires of one step of the run
C2_Step ==
    /\ pc = "confirm" =>
         /\ fs' = fs
         /\ removed' = removed
         /\ IF trim(LineRead) = T_y THEN pc' = "delete"
            ELSE IF trim(LineRead) = T_n THEN pc' = "exit0"
            ELSE pc' = "confirm" /\ out' = out
    /\ pc' = "exit0" =>
         /\ pc = "confirm"
         /\ ExitCode' = 0
         /\ fs' = fs_sel'
         /\ Selected' \in DOMAIN fs'.files
         /\ fs'.files[Selected'] = fs0'.files[Selected']
    /\ pc' = "delete" => pc = "confirm" /\ Selected' \in DOMAIN fs'.files
    /\ (pc = "delete" /\ pc' = "done") =>
         /\ ~Exists(fs', Selected')
         /\ Selected' \in removed'

\* C2: at the delete confirmation a line other than "y" or "n" (trimmed) only
\* re-prompts; "n" ends the process with exit code 0 with the selected file
\* still on disk and the file system untouched; "y" goes on to the deletion,
\* and when the deletion has completed the selected file no longer exists.
C2_DeleteConfirmation == [][C2_Step]_vars

C2_Witness ==
    /\ pc = "exit0"
    /\ trim(accepted) = T_n
    /\ Selected = RootDir \o <<N_a, N_x>>
    /\ Selected \in DOMAIN fs.files
    /\ "Cancelling" \in out

\* the index is complete: main has printed the number of notes found
IndexDone == "Found notes" \in out

Indexed == { notes[i].full_path : i \in 1..Len(notes) }

\* C3: the index holds exactly one Note per file of the tree (N files give N
\* records, no duplicate, none for a directory), each with full_path = root
\* directory joined with trunc_path; the tree a/x.md, b/y.md, b/z.txt gives
\* exactly these three relative paths.
C3_IndexIsTheFiles ==
    IndexDone =>
        /\ Len(notes) = Cardinality(DOMAIN fs0.files)
        /\ Indexed = DOMAIN fs0.files
        /\ Indexed \cap fs0.dirs = {}
        /\ \A i \in 1..Len(notes) :
              /\ notes[i].trunc_path # <<>>
              /\ notes[i].full_path = RootDir \o notes[i].trunc_path
        /\ (DOMAIN fs0.files = { RootDir \o r : r \in { <<N_a, N_x>>, <<N_b, N_y>>, <<N_b, N_z>> } })
              => { to_str(notes[i].trunc_path) : i \in 1..Len(notes) }
                   = { <<"a", "/", "x", ".", "m", "d">>, <<"b", "/", "y", ".", "m", "d">>,
                       <<"b", "/", "z", ".", "t", "x", "t">> }

C3_Witness ==
    /\ pc = "prompt_action"
    /\ Len(notes) = 3
    /\ fs0 = MkFs({ <<N_a>>, <<N_b>>, <<N_a, N_c>> },
                  { <<N_a, N_c, N_w>>, <<N_b, N_y>>, <<N_b, N_z>> })

\* C4: validate_project_name(s) is true exactly when s without its leading and
\* trailing whitespace is non-empty and made of alphanumerics, '_' and '.'
\* only (so every rejected line fails that test and every accepted line passes
\* it, the valid names of the tests are never rejected and the invalid ones
\* never accepted), and prompt_for_project_name returns the accepted line
\* trimmed, which the same test accepts.
C4_ValidateProjectName ==
    /\ pc = "prompt_project" => ~Accepts(input) /\ input \notin ValidNames
    /\ pc = "done" =>
         /\ Accepts(accepted)
         /\ accepted \notin InvalidNames
         /\ accepted \notin { <<>>, <<" ">>, <<"\n">>, <<" ", "\n">> }
         /\ IsTrimOf(project_name, accepted)
         /\ Accepts(project_name)

C4_Witness ==
    /\ pc = "done"
    /\ accepted = <<" ", " ", " ", "h", "e", "l", "l", "o", " ", " ", " ">>
    /\ project_name = <<"h", "e", "l", "l", "o">>
    /\ "invalid characters" \in out

\* the place of each position of main in the sequence
\* Probe -> Index -> Prompt(Action) -> Execute(Action) -> terminated
Stage(p) ==
    CASE p \in {"start", "create_root"} -> 0
      [] p \in {"index", "walk"} -> 1
      [] p = "prompt_action" -> 2
      [] p \in {"create_note", "editor", "prompt_note", "confirm", "delete",
                "prompt_project"} -> 3
      [] OTHER -> 4

\* the Actions whose arm of main's match holds position p
ArmsAt(p) ==
    CASE p \in {"create_note", "editor"} -> {"CreateNote"}
      [] p \in {"prompt_note", "confirm", "delete", "exit0"} -> {"Delete"}
      [] p = "prompt_project" -> {"CreateProject"}
      [] p = "done" -> {"CreateNote", "Delete", "CreateProject"}
      [] p = "panic" -> {"none", "Delete"}
      [] OTHER -> {"none"}

\* what C5 requires of one step of the run
C5_Step ==
    /\ ~Terminated
    /\ Stage(pc') >= Stage(pc)
    /\ Stage(pc') <= Stage(pc) + 1 \/ pc' = "panic" \/ Terminated'
    /\ index_runs' <= 1
    /\ index_runs' = 1 => Stage(pc') >= 1
    /\ (Stage(pc') \in {2, 3} \/ pc' \in {"done", "exit0"}) => index_runs' = 1 /\ IndexDone'
    /\ Stage(pc) >= 2 => index_runs' = index_runs /\ notes' = notes
    /\ pc' = "prompt_action" => index_runs' = 1 /\ IndexDone' /\ action' = "none"
    /\ pc = "prompt_action" =>
         IF trim(LineRead) = T_c THEN action' = "CreateNote" /\ pc' = "create_note"
         ELSE IF trim(LineRead) = T_d THEN action' = "Delete" /\ pc' = "prompt_note"
         ELSE IF trim(LineRead) = T_p THEN action' = "CreateProject" /\ pc' = "prompt_project"
         ELSE pc' = pc /\ action' = "none"
    /\ pc # "prompt_action" => action' = action /\ actions_run' = actions_run
    /\ actions_run' = (IF action' = "none" THEN 0 ELSE 1)
    /\ action' \in ArmsAt(pc')
    /\ pc' \in {"done", "exit0"} => actions_run' = 1 /\ index_runs' = 1

\* C5: a run goes Probe -> Index -> Prompt(Action) -> Execute(Action) ->
\* terminated and never back; the action prompt returns only on a line that is
\* "c", "d" or "p" once trimmed, with CreateNote, Delete, CreateProject
\* respectively, and re-prompts on any other; the index is built once, before
\* the prompt; one Action is returned and only its arm runs; nothing follows
\* termination.
C5_LinearRun == [][C5_Step]_vars

C5_Witness ==
    /\ pc = "done"
    /\ action = "Delete"
    /\ index_runs = 1
    /\ actions_run = 1
    /\ "No clife folder detected" \notin out

\* what C8 requires of one step of the run
C8_Step ==
    action' = "CreateProject" =>
        /\ fs' = fs_sel'
        /\ UnderRoot(fs') = UnderRoot(fs0')
        /\ removed' = {}
        /\ pc' \in {"prompt_project", "done"}
        /\ pc = "prompt_project" =>
             IF Accepts(LineRead)
             THEN pc' = "done" /\ ExitCode' = 0 /\ io_failed' = io_failed
             ELSE pc' = pc

\* C8: from the moment CreateProject is selected nothing in the file system
\* changes, and nothing below the root directory differs from what the run
\* started with: no directory is created, no file created, modified or
\* removed; a line that is a valid name ends the run normally (exit code 0),
\* any other re-prompts.
C8_CreateProjectNoEffect == [][C8_Step]_vars

C8_Witness ==
    /\ pc = "done"
    /\ action = "CreateProject"
    /\ project_name = <<"d">>
    /\ "invalid characters" \in out
    /\ Cardinality(DOMAIN fs.files) = 2

\* C9: every path handed to remove_file is the root directory joined with the
\* trunc_path of an indexed Note, hence that Note's full_path; a completed
\* Delete has removed that one file and left every other file and directory
\* as it was; a run of CreateNote or CreateProject removes no file.
C9_DeleteFrame ==
    /\ removed \subseteq { RootDir \o notes[i].trunc_path : i \in 1..Len(notes) }
    /\ removed \subseteq Indexed
    /\ Cardinality(removed) <= 1
    /\ action # "Delete" => removed = {} /\ DOMAIN fs0.files \subseteq DOMAIN fs.files
    /\ (action = "Delete" /\ pc # "done") => fs = fs_sel
    /\ (action = "Delete" /\ pc = "done") =>
          \E p \in DOMAIN fs_sel.files :
              /\ removed = {p}
              /\ fs.dirs = fs_sel.dirs
              /\ DOMAIN fs.files = DOMAIN fs_sel.files \ {p}
              /\ \A q \in DOMAIN fs.files : fs.files[q] = fs_sel.files[q]

C9_Witness ==
    /\ action = "Delete"
    /\ pc = "done"
    /\ removed = { RootDir \o <<N_b, N_y>> }
    /\ Len(notes) = 3

\* the relative paths of the index, as the texts the note prompt lists
IndexedTexts == { to_str(notes[i].trunc_path) : i \in 1..Len(notes) }

\* what C10 requires of one step of the run
C10_Step ==
    /\ (notes' = <<>> /\ action' = "Delete") =>
          pc' = "prompt_note" /\ removed' = {} /\ fs' = fs_sel'
    /\ pc = "prompt_note" =>
          IF trim(LineRead) \in IndexedTexts
          THEN /\ pc' = "confirm"
               /\ to_str(note_path'.comps) = trim(LineRead)
               /\ ~note_path'.abs
          ELSE pc' = pc /\ note_path' = note_path

\* C10: with an empty index a run that selected Delete stays at the note prompt
\* whatever is typed: it reaches neither the confirmation nor the removal and
\* does not terminate; with any index the note prompt returns exactly on a
\* line whose trimmed text is the trunc_path of an indexed Note, with that path.
C10_NotePrompt == [][C10_Step]_vars

C10_Witness ==
    /\ notes = <<>>
    /\ action = "Delete"
    /\ pc = "prompt_note"
    /\ input = Line(T_y)

====
